---- MODULE Spec2Model ----
(***************************************************************************)
(* Model of homework.py: a bot that polls the homework-review API on a     *)
(* fixed period and relays status changes to a Telegram chat.              *)
(*                                                                         *)
(* Python values are records tagged with their type, so that a response    *)
(* that is not a dict, a `homeworks` that is not a list or a               *)
(* `current_date` that is not an int are values the model can hold.        *)
(* A call either returns (Ret) or raises (Raise); the exception carries    *)
(* its Python class and its argument, and ExcStr is Python's str() of it.  *)
(* The Russian string literals of the source are transliterated, TLA+      *)
(* strings being ASCII.                                                    *)
(***************************************************************************)
EXTENDS Integers, Sequences, FiniteSets, TLC

VARIABLES
    PRACTICUM_TOKEN,    \* os.getenv('PRACTICUM_TOKEN')
    TELEGRAM_TOKEN,     \* os.getenv('TELEGRAM_TOKEN')
    TELEGRAM_CHAT_ID,   \* os.getenv('TELEGRAM_CHAT_ID')
    pc,                 \* position of main()
    current_timestamp,  \* main: the poll cursor
    previous_message,   \* main: the last-sent message
    message,            \* main: the message of the current cycle
    response,           \* main: what get_api_answer returned
    homeworks,          \* main: what check_response returned
    error,              \* the exception being handled or propagating
    fetched,            \* number of calls of get_api_answer
    slept,              \* seconds spent in time.sleep
    cycle,              \* history of the cycle in progress
    last                \* history of the cycle before it

vars == <<PRACTICUM_TOKEN, TELEGRAM_TOKEN, TELEGRAM_CHAT_ID, pc,
          current_timestamp, previous_message, message, response, homeworks,
          error, fetched, slept, cycle, last>>

(***************************************************************************)
(* Bounds of the model.                                                    *)
(***************************************************************************)
\* number of iterations of `while True` that are explored
MaxCycles == 4
\* int(time.time()) at startup is one of 100 .. 100 + MaxClockSkew
MaxClockSkew == 0

(***************************************************************************)
(* Python values.                                                          *)
(***************************************************************************)
None == [type |-> "NoneType"]
JInt(n) == [type |-> "int", n |-> n]
JStr(s) == [type |-> "str", s |-> s]
JList(items) == [type |-> "list", items |-> items]
JDict(d) == [type |-> "dict", d |-> d]

EmptyDict == JDict([k \in {} |-> None])

\* bool(v), as `if homeworks:` evaluates it
Truthy(v) ==
    CASE v.type = "NoneType" -> FALSE
      [] v.type = "int" -> v.n # 0
      [] v.type = "str" -> v.s # ""
      [] v.type = "list" -> Len(v.items) > 0
      [] v.type = "dict" -> DOMAIN v.d # {}

\* isinstance(v, dict) and key in v
HasKey(v, key) == v.type = "dict" /\ key \in DOMAIN v.d

\* dict.get(key)
Get(v, key) == IF key \in DOMAIN v.d THEN v.d[key] ELSE None

Ret(v) == [ok |-> TRUE, val |-> v]
Raise(cls, arg) == [ok |-> FALSE, exc |-> [type |-> cls, args |-> arg]]

\* f'{v}' for the values the model formats
Format(v) ==
    CASE v.type = "str" -> v.s
      [] v.type = "int" -> ToString(v.n)
      [] v.type = "NoneType" -> "None"
      [] v.type = "list" -> "[...]"
      [] v.type = "dict" -> "{...}"

NoError == [type |-> "", args |-> ""]

\* str(error): KeyError shows the repr of its argument, the others the argument
ExcStr(e) == IF e.type = "KeyError" THEN "'" \o e.args \o "'" ELSE e.args

(***************************************************************************)
(* Module constants.                                                       *)
(***************************************************************************)
RETRY_PERIOD == 600
ENDPOINT == "https://practicum.yandex.ru/api/user_api/homework_statuses/"
HTTP_OK == 200

HOMEWORK_VERDICTS ==
    [s \in {"approved", "reviewing", "rejected"} |->
        CASE s = "approved" -> "Rabota proverena: revyueru vsyo ponravilos. Ura!"
          [] s = "reviewing" -> "Rabota vzyata na proverku revyuerom."
          [] s = "rejected" -> "Rabota proverena: u revyuera est zamechaniya."]

(***************************************************************************)
(* check_tokens                                                            *)
(***************************************************************************)
check_tokens_any ==
    \E value \in {PRACTICUM_TOKEN, TELEGRAM_TOKEN, TELEGRAM_CHAT_ID} : value # None

check_tokens ==
    \A value \in {PRACTICUM_TOKEN, TELEGRAM_TOKEN, TELEGRAM_CHAT_ID} : value # None

(***************************************************************************)
(* send_message(bot, message). `outcome` is what bot.send_message does:    *)
(* it returns, raises a telegram.error.TelegramError, or raises an         *)
(* exception of another class. `logged` are the levels logged.             *)
(***************************************************************************)
SendOutcomes == {"sent", "TelegramError", "OtherError"}

send_message(text, outcome) ==
    CASE outcome = "sent" ->
            [ok |-> TRUE, val |-> None, logged |-> <<"info", "debug">>]
      [] outcome = "TelegramError" ->
            [ok |-> TRUE, val |-> None, logged |-> <<"info", "error">>]
      [] outcome = "OtherError" ->
            [ok |-> FALSE, exc |-> [type |-> "RuntimeError", args |-> "send failed"],
             logged |-> <<"info">>]

(***************************************************************************)
(* get_api_answer(current_timestamp). `net` is what requests.get does      *)
(* with params {'from_date': timestamp}: it raises, or it answers with a   *)
(* status code and a body; `json` is what response.json() gives for the    *)
(* body (a raise for a body that is not JSON).                             *)
(***************************************************************************)
params(timestamp) == [from_date |-> timestamp]

get_api_answer(timestamp, net) ==
    IF net.raises
    THEN Raise("ConnectionError", "Problemy s podklyucheniem k serveru")
    ELSE IF net.status_code # HTTP_OK
    THEN Raise("Exception",
               "Endpoint " \o ENDPOINT \o " nedostupen. Kod otveta API: "
                   \o ToString(net.status_code))
    ELSE net.json

(***************************************************************************)
(* check_response(response)                                                *)
(***************************************************************************)
\* check_response with the check of line 85 made before that of line 78
check_response_ListCheckFirst(resp) ==
    IF resp.type # "dict"
    THEN Raise("TypeError", "Nekorrektnyi otvet ot API - ozhidalsya slovar")
    ELSE IF Get(resp, "homeworks").type # "list"
    THEN Raise("TypeError",
               "Nekorrektnyi otvet ot API - \"homeworks\" dolzhen imet tip list")
    ELSE IF ~HasKey(resp, "homeworks") \/ ~HasKey(resp, "current_date")
    THEN Raise("KeyError",
               "Nekorrektnyi otvet ot API - v slovare otsutstvuet neobhodimyi klyuch")
    ELSE IF Len(Get(resp, "homeworks").items) = 0
    THEN Raise("IndexError", "list index out of range")
    ELSE Ret(Get(resp, "homeworks").items[1])

\* check_response with `and` for the `or` of line 78
check_response_BothMissing(resp) ==
    IF resp.type # "dict"
    THEN Raise("TypeError", "Nekorrektnyi otvet ot API - ozhidalsya slovar")
    ELSE IF ~HasKey(resp, "homeworks") /\ ~HasKey(resp, "current_date")
    THEN Raise("KeyError",
               "Nekorrektnyi otvet ot API - v slovare otsutstvuet neobhodimyi klyuch")
    ELSE IF Get(resp, "homeworks").type # "list"
    THEN Raise("TypeError",
               "Nekorrektnyi otvet ot API - \"homeworks\" dolzhen imet tip list")
    ELSE IF Len(Get(resp, "homeworks").items) = 0
    THEN Raise("IndexError", "list index out of range")
    ELSE Ret(Get(resp, "homeworks").items[1])

\* check_response returning homeworks[-1]
check_response_LastRecord(resp) ==
    IF resp.type # "dict"
    THEN Raise("TypeError", "Nekorrektnyi otvet ot API - ozhidalsya slovar")
    ELSE IF ~HasKey(resp, "homeworks") \/ ~HasKey(resp, "current_date")
    THEN Raise("KeyError",
               "Nekorrektnyi otvet ot API - v slovare otsutstvuet neobhodimyi klyuch")
    ELSE IF Get(resp, "homeworks").type # "list"
    THEN Raise("TypeError",
               "Nekorrektnyi otvet ot API - \"homeworks\" dolzhen imet tip list")
    ELSE IF Len(Get(resp, "homeworks").items) = 0
    THEN Raise("IndexError", "list index out of range")
    ELSE Ret(Get(resp, "homeworks").items[Len(Get(resp, "homeworks").items)])

check_response(resp) ==
    IF resp.type # "dict"
    THEN Raise("TypeError", "Nekorrektnyi otvet ot API - ozhidalsya slovar")
    ELSE IF ~HasKey(resp, "homeworks") \/ ~HasKey(resp, "current_date")
    THEN Raise("KeyError",
               "Nekorrektnyi otvet ot API - v slovare otsutstvuet neobhodimyi klyuch")
    ELSE IF Get(resp, "homeworks").type # "list"
    THEN Raise("TypeError",
               "Nekorrektnyi otvet ot API - \"homeworks\" dolzhen imet tip list")
    ELSE IF Len(Get(resp, "homeworks").items) = 0
    THEN Raise("IndexError", "list index out of range")
    ELSE Ret(Get(resp, "homeworks").items[1])

(***************************************************************************)
(* parse_status(homework)                                                  *)
(***************************************************************************)
\* parse_status with the check of lines 110-115 raising ValueError
parse_status_ValueError(homework) ==
    IF homework.type # "dict"
    THEN Raise("AttributeError",
               "'" \o homework.type \o "' object has no attribute 'keys'")
    ELSE IF ~HasKey(homework, "homework_name")
    THEN Raise("KeyError",
               "Nekorrektnyi otvet ot API - v slovare otsutstvuet klyuch \"homework_name\"")
    ELSE IF ~HasKey(homework, "status")
    THEN Raise("KeyError",
               "Nekorrektnyi otvet ot API - v slovare otsutstvuet klyuch \"status\"")
    ELSE IF homework.d["status"].type \in {"list", "dict"}
    THEN Raise("TypeError", "unhashable type: '" \o homework.d["status"].type \o "'")
    ELSE IF ~(homework.d["status"].type = "str"
              /\ homework.d["status"].s \in DOMAIN HOMEWORK_VERDICTS)
    THEN Raise("ValueError",
               "Nekorrektnyi otvet ot API - nedokumentirovannyi status domashnei raboty")
    ELSE Ret("Izmenilsya status proverki raboty \""
             \o Format(homework.d["homework_name"]) \o "\". "
             \o HOMEWORK_VERDICTS[homework.d["status"].s])

parse_status(homework) ==
    IF homework.type # "dict"
    THEN Raise("AttributeError",
               "'" \o homework.type \o "' object has no attribute 'keys'")
    ELSE IF ~HasKey(homework, "homework_name")
    THEN Raise("KeyError",
               "Nekorrektnyi otvet ot API - v slovare otsutstvuet klyuch \"homework_name\"")
    ELSE IF ~HasKey(homework, "status")
    THEN Raise("KeyError",
               "Nekorrektnyi otvet ot API - v slovare otsutstvuet klyuch \"status\"")
    ELSE IF homework.d["status"].type \in {"list", "dict"}
    THEN Raise("TypeError", "unhashable type: '" \o homework.d["status"].type \o "'")
    ELSE IF ~(homework.d["status"].type = "str"
              /\ homework.d["status"].s \in DOMAIN HOMEWORK_VERDICTS)
    THEN Raise("KeyError",
               "Nekorrektnyi otvet ot API - nedokumentirovannyi status domashnei raboty")
    ELSE Ret("Izmenilsya status proverki raboty \""
             \o Format(homework.d["homework_name"]) \o "\". "
             \o HOMEWORK_VERDICTS[homework.d["status"].s])

(***************************************************************************)
(* The environment: what the API and the network can answer in a cycle.    *)
(***************************************************************************)
Record(name, status) ==
    JDict(("homework_name" :> JStr(name)) @@ ("status" :> JStr(status)))

Answer(hw, date) == JDict(("homeworks" :> hw) @@ ("current_date" :> date))

Records ==
    { Record("proj1", "approved"), Record("proj1", "reviewing"),
      Record("proj1", "unknown"),
      JDict(("homework_name" :> JStr("proj1")) @@ ("status" :> JList(<<>>))),
      JDict("homework_name" :> JStr("proj1")),
      JDict("status" :> JStr("approved")),
      EmptyDict,
      JStr("proj1") }

Bodies ==
    { Answer(JList(<<r>>), JInt(200)) : r \in Records }
    \cup { Answer(JList(<<>>), JInt(200)),
           Answer(JList(<<Record("proj1", "approved"), Record("proj2", "rejected")>>),
                  JInt(300)),
           Answer(JList(<<Record("proj1", "approved"), Record("proj2", "rejected")>>),
                  JInt(200)),
           Answer(JList(<<Record("proj1", "unknown"), Record("proj1", "approved")>>),
                  JInt(200)),
           Answer(JList(<<Record("proj1", "rejected")>>), JStr("tomorrow")),
           Answer(EmptyDict, JInt(200)),
           JDict("homeworks" :> JList(<<Record("proj1", "approved")>>)),
           JDict("current_date" :> JInt(200)),
           JDict("homeworks" :> EmptyDict),
           EmptyDict,
           JList(<<>>) }

StatusCodes == {200, 503}

Nets ==
    { [raises |-> TRUE, status_code |-> 0, json |-> Ret(None)] }
    \cup { [raises |-> FALSE, status_code |-> c, json |-> Ret(None)] :
               c \in StatusCodes \ {HTTP_OK} }
    \cup { [raises |-> FALSE, status_code |-> HTTP_OK, json |-> Ret(b)] : b \in Bodies }
    \cup { [raises |-> FALSE, status_code |-> HTTP_OK,
            json |-> Raise("JSONDecodeError",
                           "Expecting value: line 1 column 1 (char 0)")] }

TokenValues == {None, JStr("secret")}

StartTimes == { JInt(100 + i) : i \in 0 .. MaxClockSkew }

(***************************************************************************)
(* History of a cycle, kept to state properties of whole cycles.           *)
(***************************************************************************)
\* what is kept of the cycle before the last one: the message it built, if
\* it built exactly one; how often it called bot.send_message; whether that
\* message differed from last-sent when the cycle began
Older(c) ==
    [single |-> IF Len(c.produced) = 1 THEN c.produced[1] ELSE "",
     sends |-> Len(c.attempts),
     fresh |-> Len(c.produced) = 1 /\ c.produced[1] # c.prev0]

NoOlder == [single |-> "", sends |-> 0, fresh |-> FALSE]

\* produced: the messages the cycle built, in order; recent: the text of the
\* most recent call of bot.send_message, in this cycle or before it
NoCycle ==
    [n |-> 0, cursor0 |-> None, prev0 |-> "", from_date |-> None,
     fetch_error |-> NoError, translated |-> "", attempts |-> <<>>,
     path |-> "none", produced |-> <<>>, recent |-> "", older |-> NoOlder]

NewCycle ==
    [n |-> cycle.n + 1, cursor0 |-> current_timestamp, prev0 |-> previous_message,
     from_date |-> params(current_timestamp).from_date, fetch_error |-> NoError,
     translated |-> "", attempts |-> <<>>, path |-> "running",
     produced |-> <<>>, recent |-> cycle.recent, older |-> Older(last)]

\* the history of a cycle as kept once the next one has begun
Closed(c) == [c EXCEPT !.recent = "", !.older = NoOlder]

Attempt(text, outcome) == [text |-> text, outcome |-> outcome]

(***************************************************************************)
(* main                                                                    *)
(***************************************************************************)
Init ==
    /\ PRACTICUM_TOKEN \in TokenValues
    /\ TELEGRAM_TOKEN \in TokenValues
    /\ TELEGRAM_CHAT_ID \in TokenValues
    /\ pc = "main"
    /\ current_timestamp = None
    /\ previous_message = ""
    /\ message = ""
    /\ response = None
    /\ homeworks = None
    /\ error = NoError
    /\ fetched = 0
    /\ slept = 0
    /\ cycle = NoCycle
    /\ last = NoCycle

env == <<PRACTICUM_TOKEN, TELEGRAM_TOKEN, TELEGRAM_CHAT_ID>>

\* lines 122-129: the configuration check and the initial values; the
\* construction of telegram.Bot from a token that is present returns
Startup ==
    /\ pc = "main"
    /\ IF check_tokens
       THEN /\ pc' = "fetch"
            /\ current_timestamp' \in StartTimes
       ELSE /\ pc' = "exited"
            /\ UNCHANGED current_timestamp
    /\ previous_message' = ""
    /\ message' = ""
    /\ UNCHANGED <<env, response, homeworks, error, fetched, slept, cycle, last>>

\* line 132: response = get_api_answer(current_timestamp)
Fetch ==
    /\ pc = "fetch"
    /\ cycle.n < MaxCycles
    /\ \E net \in Nets :
         LET r == get_api_answer(current_timestamp, net) IN
         /\ fetched' = fetched + 1
         /\ last' = Closed(cycle)
         /\ IF r.ok
            THEN /\ response' = r.val
                 /\ error' = NoError
                 /\ cycle' = NewCycle
                 /\ pc' = "check"
            ELSE /\ response' = None
                 /\ error' = r.exc
                 /\ cycle' = [NewCycle EXCEPT !.fetch_error = r.exc]
                 /\ pc' = "except"
    /\ homeworks' = None
    /\ UNCHANGED <<env, current_timestamp, previous_message, message, slept>>

\* line 133: homeworks = check_response(response)
Check ==
    /\ pc = "check"
    /\ LET r == check_response(response) IN
         IF r.ok
         THEN /\ homeworks' = r.val
              /\ pc' = "branch"
              /\ UNCHANGED error
         ELSE /\ error' = r.exc
              /\ pc' = "except"
              /\ UNCHANGED homeworks
    /\ UNCHANGED <<env, current_timestamp, previous_message, message, response,
                   fetched, slept, cycle, last>>

\* lines 134, 139-140: if homeworks: ... else: logger.debug(...)
Branch ==
    /\ pc = "branch"
    /\ IF Truthy(homeworks)
       THEN /\ pc' = "parse"
            /\ UNCHANGED cycle
       ELSE /\ pc' = "advance"
            /\ cycle' = [cycle EXCEPT !.path = "norecord"]
    /\ UNCHANGED <<env, current_timestamp, previous_message, message, response,
                   homeworks, error, fetched, slept, last>>

\* line 135: message = parse_status(homeworks)
Parse ==
    /\ pc = "parse"
    /\ LET r == parse_status(homeworks) IN
         IF r.ok
         THEN /\ message' = r.val
              /\ cycle' = [cycle EXCEPT !.translated = r.val,
                                        !.produced = Append(@, r.val)]
              /\ pc' = "notify"
              /\ UNCHANGED error
         ELSE /\ error' = r.exc
              /\ pc' = "except"
              /\ UNCHANGED <<message, cycle>>
    /\ UNCHANGED <<env, current_timestamp, previous_message, response, homeworks,
                   fetched, slept, last>>

\* lines 136 and 145: message != previous_message
message_changed_always(new, old) == TRUE

message_changed(new, old) == new # old

\* lines 136-138: if message != previous_message: send_message; previous_message = message
Notify ==
    /\ pc = "notify"
    /\ IF message_changed(message, previous_message)
       THEN \E outcome \in SendOutcomes :
              LET r == send_message(message, outcome) IN
              /\ cycle' = [cycle EXCEPT
                               !.attempts = Append(@, Attempt(message, outcome)),
                               !.recent = message,
                               !.path = IF r.ok THEN "success" ELSE @]
              /\ IF r.ok
                 THEN /\ previous_message' = message
                      /\ pc' = "advance"
                      /\ UNCHANGED error
                 ELSE /\ error' = r.exc
                      /\ pc' = "except"
                      /\ UNCHANGED previous_message
       ELSE /\ pc' = "advance"
            /\ cycle' = [cycle EXCEPT !.path = "success"]
            /\ UNCHANGED <<previous_message, error>>
    /\ UNCHANGED <<env, current_timestamp, message, response, homeworks,
                   fetched, slept, last>>

\* line 141 placed under `if message != previous_message`
Advance_IfNotified ==
    /\ pc = "advance"
    /\ current_timestamp' = IF cycle.attempts # <<>>
                            THEN Get(response, "current_date")
                            ELSE current_timestamp
    /\ pc' = "sleep"
    /\ UNCHANGED <<env, previous_message, message, response, homeworks, error,
                   fetched, slept, cycle, last>>

\* line 141: current_timestamp = response.get('current_date')
Advance ==
    /\ pc = "advance"
    /\ current_timestamp' = Get(response, "current_date")
    /\ pc' = "sleep"
    /\ UNCHANGED <<env, previous_message, message, response, homeworks, error,
                   fetched, slept, cycle, last>>

\* the message of line 143
FailureMessage(e) == "Sboi v rabote programmy: " \o ExcStr(e)

\* lines 142-146 without line 147: last-sent is kept for status messages only
Except_StatusSlotOnly ==
    /\ pc = "except"
    /\ message' = FailureMessage(error)
    /\ IF message_changed(message', previous_message)
       THEN \E outcome \in SendOutcomes :
              LET r == send_message(message', outcome) IN
              /\ cycle' = [cycle EXCEPT
                               !.attempts = Append(@, Attempt(message', outcome)),
                               !.recent = message',
                               !.produced = Append(@, message'),
                               !.path = "failure"]
              /\ error' = IF r.ok THEN NoError ELSE r.exc
       ELSE /\ cycle' = [cycle EXCEPT !.path = "failure",
                                      !.produced = Append(@, message')]
            /\ error' = NoError
    /\ pc' = "sleep"
    /\ UNCHANGED <<env, current_timestamp, previous_message, response, homeworks,
                   fetched, slept, last>>

\* lines 142-147: except Exception as error
Except ==
    /\ pc = "except"
    /\ message' = FailureMessage(error)
    /\ IF message_changed(message', previous_message)
       THEN \E outcome \in SendOutcomes :
              LET r == send_message(message', outcome) IN
              /\ cycle' = [cycle EXCEPT
                               !.attempts = Append(@, Attempt(message', outcome)),
                               !.recent = message',
                               !.produced = Append(@, message'),
                               !.path = "failure"]
              /\ IF r.ok
                 THEN /\ previous_message' = message'
                      /\ error' = NoError
                 ELSE /\ error' = r.exc
                      /\ UNCHANGED previous_message
       ELSE /\ cycle' = [cycle EXCEPT !.path = "failure",
                                      !.produced = Append(@, message')]
            /\ error' = NoError
            /\ UNCHANGED previous_message
    /\ pc' = "sleep"
    /\ UNCHANGED <<env, current_timestamp, response, homeworks, fetched, slept, last>>

\* line 141 placed in the finally block
Sleep_Advancing ==
    /\ pc = "sleep"
    /\ slept' = slept + RETRY_PERIOD
    /\ current_timestamp' = IF HasKey(response, "current_date")
                            THEN Get(response, "current_date")
                            ELSE current_timestamp
    /\ pc' = IF error = NoError THEN "fetch" ELSE "crashed"
    /\ UNCHANGED <<env, previous_message, message, response,
                   homeworks, error, fetched, cycle, last>>

\* line 149 placed at the end of the try block instead of in finally
Sleep_OnlyOnSuccess ==
    /\ pc = "sleep"
    /\ slept' = IF cycle.path = "failure" THEN slept ELSE slept + RETRY_PERIOD
    /\ pc' = IF error = NoError THEN "fetch" ELSE "crashed"
    /\ UNCHANGED <<env, current_timestamp, previous_message, message, response,
                   homeworks, error, fetched, cycle, last>>

\* lines 148-149: finally: time.sleep(RETRY_PERIOD); then the next iteration,
\* or the exception raised inside the handler leaves main
Sleep ==
    /\ pc = "sleep"
    /\ slept' = slept + RETRY_PERIOD
    /\ pc' = IF error = NoError THEN "fetch" ELSE "crashed"
    /\ UNCHANGED <<env, current_timestamp, previous_message, message, response,
                   homeworks, error, fetched, cycle, last>>

(***************************************************************************)
(* Lines 131-147 as a function: the cycle that main runs from cursor       *)
(* `timestamp` and last-sent `previous` on the response `resp`, when the   *)
(* calls of bot.send_message end as `outcomes` says, in order. It gives    *)
(* the texts passed to bot.send_message and the cursor and last-sent the   *)
(* cycle ends with.                                                        *)
(***************************************************************************)
NextOutcome(outcomes) == IF outcomes = <<>> THEN "sent" ELSE Head(outcomes)

RestOutcomes(outcomes) == IF outcomes = <<>> THEN <<>> ELSE Tail(outcomes)

\* lines 132-141, with the exception that leaves the try block, if any
try_block(timestamp, previous, resp, outcomes) ==
    LET checked == check_response(resp)
        quiet(exc, cursor) ==
            [exc |-> exc, texts |-> <<>>, cursor |-> cursor,
             previous |-> previous, outcomes |-> outcomes]
    IN  IF ~checked.ok THEN quiet(checked.exc, timestamp)
        ELSE IF ~Truthy(checked.val) THEN quiet(NoError, Get(resp, "current_date"))
        ELSE LET parsed == parse_status(checked.val) IN
             IF ~parsed.ok THEN quiet(parsed.exc, timestamp)
             ELSE IF ~message_changed(parsed.val, previous)
             THEN quiet(NoError, Get(resp, "current_date"))
             ELSE LET sent == send_message(parsed.val, NextOutcome(outcomes)) IN
                  IF sent.ok
                  THEN [exc |-> NoError, texts |-> <<parsed.val>>,
                        cursor |-> Get(resp, "current_date"),
                        previous |-> parsed.val,
                        outcomes |-> RestOutcomes(outcomes)]
                  ELSE [exc |-> sent.exc, texts |-> <<parsed.val>>,
                        cursor |-> timestamp, previous |-> previous,
                        outcomes |-> RestOutcomes(outcomes)]

\* lines 131-147
run_cycle(timestamp, previous, resp, outcomes) ==
    LET t == try_block(timestamp, previous, resp, outcomes)
        failure == FailureMessage(t.exc)
    IN  IF t.exc = NoError
        THEN [texts |-> t.texts, cursor |-> t.cursor, previous |-> t.previous]
        ELSE IF ~message_changed(failure, t.previous)
        THEN [texts |-> t.texts, cursor |-> t.cursor, previous |-> t.previous]
        ELSE [texts |-> Append(t.texts, failure), cursor |-> t.cursor,
              previous |-> IF send_message(failure, NextOutcome(t.outcomes)).ok
                           THEN failure ELSE t.previous]

Next ==
    \/ Startup
    \/ Fetch
    \/ Check
    \/ Branch
    \/ Parse
    \/ Notify
    \/ Advance
    \/ Except
    \/ Sleep

Spec == Init /\ [][Next]_vars

TypeOK ==
    /\ pc \in {"main", "exited", "fetch", "check", "branch", "parse", "notify",
               "advance", "except", "sleep", "crashed"}
    /\ fetched \in 0 .. MaxCycles
    /\ cycle.n = fetched
    /\ Len(cycle.attempts) <= 2

(***************************************************************************)
(* Vocabulary of the properties.                                           *)
(***************************************************************************)
\* the try/except of the cycle in progress has finished
CycleDone == cycle.n > 0 /\ pc \in {"sleep", "fetch", "crashed"}

\* both cycles of the history have finished, one after the other
TwoCyclesDone == CycleDone /\ last.n > 0

\* a mapping with both keys whose `homeworks` is a sequence
StructurallyValid(resp) ==
    /\ resp.type = "dict"
    /\ {"homeworks", "current_date"} \subseteq DOMAIN resp.d
    /\ resp.d["homeworks"].type = "list"

EmptyHomeworks(resp) ==
    StructurallyValid(resp) /\ resp.d["homeworks"].items = <<>>

AllTokensPresent ==
    PRACTICUM_TOKEN # None /\ TELEGRAM_TOKEN # None /\ TELEGRAM_CHAT_ID # None

FailurePrefix == "Sboi v rabote programmy: "

KnownStatuses == {"approved", "reviewing", "rejected"}

\* a record with homework_name and a status string outside the known three
UnknownStatusRecord(hw) ==
    /\ hw.type = "dict"
    /\ {"homework_name", "status"} \subseteq DOMAIN hw.d
    /\ hw.d["status"].type = "str"
    /\ hw.d["status"].s \notin KnownStatuses

\* the exception being handled was raised by parse_status
RaisedByParse == pc = "except" /\ homeworks # None /\ cycle.translated = ""

(***************************************************************************)
(* C1. A cycle whose response is a mapping with both keys and an empty     *)
(* `homeworks` sequence validates to "no record" without error, sends no   *)
(* notification, and ends with the cursor equal to the response's          *)
(* current_date.                                                           *)
(***************************************************************************)
C1_EmptyHomeworksIsNoRecord ==
    (CycleDone /\ EmptyHomeworks(response)) =>
        /\ cycle.path = "norecord"
        /\ cycle.attempts = <<>>
        /\ current_timestamp = response.d["current_date"]

C3_NoErrorEscapesLoop ==
    /\ pc \in {"exited", "crashed"} => (pc = "exited" /\ ~AllTokensPresent /\ fetched = 0)
    /\ (CycleDone /\ pc # "sleep") => pc = "fetch"

(***************************************************************************)
(* C4. A cycle that ends on the failure path leaves the cursor as it was   *)
(* at the start of the cycle, and the fetch of the cycle after it is       *)
(* issued with the same from_date.                                         *)
(***************************************************************************)
C4_FailureKeepsCursor ==
    /\ (CycleDone /\ cycle.path = "failure") =>
            current_timestamp = cycle.cursor0
    /\ (last.path = "failure" /\ cycle.n = last.n + 1) =>
            cycle.from_date = last.from_date

C4_Witness ==
    /\ last.path = "failure"
    /\ last.translated # ""
    /\ cycle.n = last.n + 1
    /\ cycle.from_date = last.from_date
    /\ CycleDone /\ cycle.path = "failure"

(***************************************************************************)
(* C5 as stated. A cycle whose response is structurally valid ends with    *)
(* the cursor equal to the response's current_date.                        *)
(***************************************************************************)
C5_ValidResponseAdvancesCursor ==
    (CycleDone /\ StructurallyValid(response)) =>
        current_timestamp = response.d["current_date"]

(***************************************************************************)
(* C5 as amended. A cycle whose response is structurally valid ends with   *)
(* the cursor equal to the response's current_date when it ends on the     *)
(* success or the no-record path, whether or not a notification was sent,  *)
(* and with the cursor it started with when it ends on the failure path.   *)
(***************************************************************************)
C5_CursorFollowsPath ==
    (CycleDone /\ StructurallyValid(response)) =>
        current_timestamp = IF cycle.path = "failure"
                            THEN cycle.cursor0
                            ELSE response.d["current_date"]

C5_Witness ==
    /\ CycleDone /\ StructurallyValid(response)
    /\ cycle.path = "success"
    /\ cycle.attempts = <<>>
    /\ current_timestamp = response.d["current_date"]
    /\ current_timestamp # cycle.cursor0

(***************************************************************************)
(* C6. A cycle whose fetch fails ends with the failure message that        *)
(* embeds the error's description; the notifier receives it once if it     *)
(* differs from last-sent and not at all otherwise; of two consecutive     *)
(* cycles failing with the same description the second sends nothing; and  *)
(* after the sleep of such a cycle the loop fetches again.                 *)
(***************************************************************************)
C6_FetchFailureNotifiedOnce ==
    /\ (CycleDone /\ cycle.fetch_error # NoError) =>
          /\ message = FailurePrefix \o cycle.fetch_error.args
          /\ IF message # cycle.prev0
             THEN Len(cycle.attempts) = 1 /\ cycle.attempts[1].text = message
             ELSE cycle.attempts = <<>>
          /\ pc # "sleep" => pc = "fetch"
    /\ (/\ TwoCyclesDone
        /\ cycle.fetch_error # NoError
        /\ last.fetch_error = cycle.fetch_error) =>
          /\ cycle.attempts = <<>>
          /\ Len(last.attempts) <= 1

(***************************************************************************)
(* C7. send_message never propagates a failure: whatever bot.send_message  *)
(* does, send_message returns normally (having logged the failure), and a  *)
(* failed send is not followed by another send in the same cycle.          *)
(***************************************************************************)
C7_NotifyNeverPropagates ==
    \A i \in 1 .. Len(cycle.attempts) :
        /\ send_message(cycle.attempts[i].text, cycle.attempts[i].outcome).ok
        /\ cycle.attempts[i].outcome # "sent" => i = Len(cycle.attempts)

(***************************************************************************)
(* C8. If any of the three configuration values is absent, the process     *)
(* stops before the loop: no fetch, no notification, no sleep. If all      *)
(* three are present, the loop is entered.                                 *)
(***************************************************************************)
C8_ConfigurationGate ==
    /\ ~AllTokensPresent =>
          /\ pc \in {"main", "exited"}
          /\ fetched = 0 /\ slept = 0
          /\ cycle = NoCycle /\ last = NoCycle
    /\ (AllTokensPresent /\ pc # "main") => pc # "exited"

C8_Witness ==
    /\ pc = "exited"
    /\ PRACTICUM_TOKEN # None /\ TELEGRAM_TOKEN # None /\ TELEGRAM_CHAT_ID = None

(***************************************************************************)
(* C9. Every cycle sleeps for RETRY_PERIOD exactly once, whatever path it  *)
(* ends on: at the k-th fetch the process has slept k-1 periods, and it    *)
(* has slept k periods when the k-th cycle is over.                        *)
(***************************************************************************)
C9_OneSleepPerCycle ==
    /\ pc \in {"main", "exited"} => (fetched = 0 /\ slept = 0)
    /\ pc \in {"check", "branch", "parse", "notify", "advance", "except", "sleep"} =>
          slept = RETRY_PERIOD * (fetched - 1)
    /\ pc \in {"fetch", "crashed"} => slept = RETRY_PERIOD * fetched

C9_Witness ==
    /\ pc = "check"
    /\ fetched = 3
    /\ slept = 2 * RETRY_PERIOD
    /\ last.path = "failure"

Fetched == cycle.n > 0 /\ cycle.fetch_error = NoError /\ pc # "fetch"

\* the exception being handled was raised by check_response
RaisedByCheck == Fetched /\ pc = "except" /\ homeworks = None

\* check_response has returned in this cycle
PastCheck == Fetched /\ pc \in {"branch", "parse", "notify", "advance"}

\* `homeworks` is present and is not a sequence
HomeworksNotList(resp) ==
    /\ resp.type = "dict"
    /\ "homeworks" \in DOMAIN resp.d
    /\ resp.d["homeworks"].type # "list"

MissingKey(resp) ==
    /\ resp.type = "dict"
    /\ ~({"homeworks", "current_date"} \subseteq DOMAIN resp.d)

ShapeErrorNotList ==
    [type |-> "TypeError",
     args |-> "Nekorrektnyi otvet ot API - \"homeworks\" dolzhen imet tip list"]

ShapeErrorNotDict ==
    [type |-> "TypeError",
     args |-> "Nekorrektnyi otvet ot API - ozhidalsya slovar"]

MissingKeyError ==
    [type |-> "KeyError",
     args |-> "Nekorrektnyi otvet ot API - v slovare otsutstvuet neobhodimyi klyuch"]

(***************************************************************************)
(* C11 as stated. A response whose `homeworks` is present but is not a     *)
(* sequence fails validation with the shape error (TypeError), whatever    *)
(* else it contains or lacks.                                              *)
(***************************************************************************)
C11_NotListIsShapeError ==
    /\ (RaisedByCheck /\ HomeworksNotList(response)) => error.type = "TypeError"
    /\ PastCheck => ~HomeworksNotList(response)

(***************************************************************************)
(* C11 as amended. A response whose `homeworks` is present but is not a    *)
(* sequence fails validation: with the shape error (TypeError) when        *)
(* `current_date` is present, with the missing-key error (KeyError) when   *)
(* `current_date` is absent.                                               *)
(***************************************************************************)
C11_NotListFailsByDate ==
    /\ (RaisedByCheck /\ HomeworksNotList(response)) =>
          error = IF "current_date" \in DOMAIN response.d
                  THEN ShapeErrorNotList
                  ELSE MissingKeyError
    /\ PastCheck => ~HomeworksNotList(response)

C11_Witness ==
    /\ RaisedByCheck /\ HomeworksNotList(response)
    /\ "current_date" \in DOMAIN response.d
    /\ error = ShapeErrorNotList

(***************************************************************************)
(* C12. A mapping response that lacks `homeworks`, `current_date` or both  *)
(* fails validation with the missing-key error (KeyError) and yields no    *)
(* record; a response that is not a mapping fails with the shape error     *)
(* (TypeError) of line 76.                                                 *)
(***************************************************************************)
C12_MissingKeyOrNotMapping ==
    /\ (RaisedByCheck /\ MissingKey(response)) => error = MissingKeyError
    /\ (RaisedByCheck /\ response.type # "dict") => error = ShapeErrorNotDict
    /\ PastCheck => (response.type = "dict" /\ ~MissingKey(response))
    /\ (Fetched /\ (response.type # "dict" \/ MissingKey(response))) =>
          (homeworks = None /\ cycle.translated = "")

C12_Witness ==
    /\ RaisedByCheck
    /\ response.type = "dict"
    /\ DOMAIN response.d = {"homeworks"}
    /\ response.d["homeworks"].type = "list"
    /\ error = MissingKeyError

(***************************************************************************)
(* C13. In a first cycle (last-sent still empty) whose fetch returns a     *)
(* valid response with first record {homework_name: n, status: s}, s one   *)
(* of the three known statuses, the notifier receives exactly one message, *)
(* the fixed prefix with n in quotes followed by the verdict text of s,    *)
(* and the cursor becomes the response's current_date.                     *)
(***************************************************************************)
KnownStatusRecord(hw) ==
    /\ hw.type = "dict"
    /\ {"homework_name", "status"} \subseteq DOMAIN hw.d
    /\ hw.d["homework_name"].type = "str"
    /\ hw.d["status"].type = "str"
    /\ hw.d["status"].s \in KnownStatuses

FirstRecordKnown(resp) ==
    /\ StructurallyValid(resp)
    /\ resp.d["homeworks"].items # <<>>
    /\ KnownStatusRecord(resp.d["homeworks"].items[1])

StatusMessage(hw) ==
    "Izmenilsya status proverki raboty \"" \o hw.d["homework_name"].s \o "\". "
        \o HOMEWORK_VERDICTS[hw.d["status"].s]

C13_FirstCycleNotifiesVerdict ==
    (CycleDone /\ cycle.n = 1 /\ cycle.prev0 = "" /\ FirstRecordKnown(response)) =>
        /\ Len(cycle.attempts) = 1
        /\ cycle.attempts[1].text = StatusMessage(response.d["homeworks"].items[1])
        /\ current_timestamp = response.d["current_date"]

(***************************************************************************)
(* C14. In a cycle whose validated response has a non-empty `homeworks`    *)
(* whose first record is a mapping without `homework_name` (the empty      *)
(* mapping included), the record is translated, translation fails with     *)
(* the missing-key error, and the cycle takes the failure path: the        *)
(* failure message is built and the cursor is not advanced.                *)
(***************************************************************************)
FirstRecordLacksName(resp) ==
    /\ StructurallyValid(resp)
    /\ resp.d["homeworks"].items # <<>>
    /\ resp.d["homeworks"].items[1].type = "dict"
    /\ "homework_name" \notin DOMAIN resp.d["homeworks"].items[1].d

MissingNameError ==
    [type |-> "KeyError",
     args |-> "Nekorrektnyi otvet ot API - v slovare otsutstvuet klyuch \"homework_name\""]

C14_RecordWithoutNameFails ==
    /\ (Fetched /\ pc = "advance") => ~FirstRecordLacksName(response)
    /\ (RaisedByParse /\ FirstRecordLacksName(response)) => error = MissingNameError
    /\ (CycleDone /\ FirstRecordLacksName(response)) =>
          /\ cycle.path = "failure"
          /\ message = FailurePrefix \o "'" \o MissingNameError.args \o "'"
          /\ current_timestamp = cycle.cursor0

(***************************************************************************)
(* C15. Once the loop is entered the cursor is an integer in every state,  *)
(* and every fetch is issued with an integer from_date.                    *)
(***************************************************************************)
C15_CursorIsInteger ==
    /\ pc \notin {"main", "exited"} => current_timestamp.type = "int"
    /\ cycle.n > 0 => cycle.from_date.type = "int"

(***************************************************************************)
(* Vocabulary of the deduplication properties.                             *)
(***************************************************************************)
\* the text of the last call of bot.send_message in cycle c
LastAttempt(c) == c.attempts[Len(c.attempts)]

\* the message cycle c ended with, "" if it built none
FinalMessage(c) == IF c.produced = <<>> THEN "" ELSE c.produced[Len(c.produced)]

(***************************************************************************)
(* C16. After every notification attempt, delivered or not, last-sent is   *)
(* the attempted message: after a cycle whose send failed last-sent is the *)
(* message that was not delivered, and a following cycle that builds the   *)
(* same message makes no send.                                             *)
(***************************************************************************)
C16_LastSentIsAttempted ==
    /\ (CycleDone /\ cycle.attempts # <<>>) =>
          previous_message = LastAttempt(cycle).text
    /\ (TwoCyclesDone /\ last.attempts # <<>>
            /\ LastAttempt(last).outcome # "sent") =>
          /\ cycle.prev0 = LastAttempt(last).text
          /\ FinalMessage(cycle) = LastAttempt(last).text => cycle.attempts = <<>>

(***************************************************************************)
(* C17. Only the first record of `homeworks` is consumed: the cycle main   *)
(* ran on a valid response, and the cycle it runs from the same cursor and *)
(* last-sent on any valid response with the same first record and the same *)
(* current_date, send the same notifications and end with the same cursor  *)
(* and last-sent, whatever records follow the first.                       *)
(***************************************************************************)
\* valid responses with the first record and current_date of resp
SameFirstRecord(resp) ==
    { b \in Bodies :
        /\ StructurallyValid(b)
        /\ b.d["homeworks"].items # <<>>
        /\ b.d["homeworks"].items[1] = resp.d["homeworks"].items[1]
        /\ b.d["current_date"] = resp.d["current_date"] }

Texts(c) == [i \in 1 .. Len(c.attempts) |-> c.attempts[i].text]

Outcomes(c) == [i \in 1 .. Len(c.attempts) |-> c.attempts[i].outcome]

C17_OnlyFirstRecordConsumed ==
    (CycleDone /\ StructurallyValid(response)
        /\ response.d["homeworks"].items # <<>>) =>
        \A other \in SameFirstRecord(response) :
            run_cycle(cycle.cursor0, cycle.prev0, other, Outcomes(cycle))
                = [texts |-> Texts(cycle), cursor |-> current_timestamp,
                   previous |-> previous_message]

C17_Witness ==
    /\ CycleDone /\ StructurallyValid(response)
    /\ Len(response.d["homeworks"].items) = 2
    /\ Cardinality(SameFirstRecord(response)) = 2
    /\ Len(cycle.attempts) = 1
    /\ cycle.path = "success"

(***************************************************************************)
(* C18. In every state last-sent is the text of the most recent            *)
(* notification attempt (empty if there was none); a cycle makes at most   *)
(* one attempt, and makes one exactly when it built a message that differs *)
(* from last-sent.                                                         *)
(***************************************************************************)
C18_LastSentIsMostRecentAttempt ==
    /\ previous_message = cycle.recent
    /\ Len(cycle.attempts) <= 1
    /\ CycleDone =>
          (Len(cycle.attempts) = 1
              <=> (cycle.produced # <<>> /\ FinalMessage(cycle) # cycle.prev0))
    /\ (CycleDone /\ cycle.attempts # <<>>) =>
          LastAttempt(cycle).text = FinalMessage(cycle)

(***************************************************************************)
(* C19. Status and failure messages are deduplicated against one slot, the *)
(* most recent attempted message.  Three consecutive cycles that build the *)
(* messages A, B, A, with B different from A, are looked at when the third *)
(* has finished: cycle.older summarises the first, last is the second.     *)
(***************************************************************************)
\* cycle c built the one message text
Produced(c, text) == c.produced = <<text>>

\* the last three cycles built A, B, A, one message each, B different from A
CyclesABA ==
    /\ CycleDone /\ last.n > 0
    /\ cycle.older.single # ""
    /\ Len(last.produced) = 1
    /\ Produced(cycle, cycle.older.single)
    /\ ~Produced(last, cycle.older.single)

\* notification attempts of the three cycles together
SendsOfThree == cycle.older.sends + Len(last.attempts) + Len(cycle.attempts)

\* C19 as stated: cycles building A, B, A make three notifications.
C19_ThreeNotificationsForABA == CyclesABA => SendsOfThree = 3

\* C19: in cycles building A, B, A the B and the second A are each
\* attempted once, and the first A is attempted exactly when it differed
\* from last-sent at the start of its cycle.
C19_RepeatedAfterDifferentMessage ==
    CyclesABA =>
        /\ Len(last.attempts) = 1
        /\ last.attempts[1].text = last.produced[1]
        /\ Len(cycle.attempts) = 1
        /\ cycle.attempts[1].text = cycle.older.single
        /\ cycle.older.sends = (IF cycle.older.fresh THEN 1 ELSE 0)

C19_Witness ==
    /\ CyclesABA
    /\ cycle.older.sends = 1
    /\ last.path = "failure" /\ cycle.path = "success"
    /\ pc = "fetch"

====
